---------------------------- MODULE Spec2Model ----------------------------
(***************************************************************************)
(* Model of shallot's JSON codec: the Json serializer (serialize/json.rs)  *)
(* and the Json deserializer (deserialize/json.rs) with its row/col        *)
(* cursor.                                                                 *)
(*                                                                         *)
(* Text (&str / String) is a sequence of characters; a character is a      *)
(* one-character string, or a token naming a scalar whose UTF-8 encoding   *)
(* is longer than one byte ("U+00E9", "U+00A0", "U+20AC").  Byte lengths   *)
(* and byte-indexed slices are computed from Utf8Len, because the code     *)
(* mixes character indexes and byte indexes.                               *)
(*                                                                         *)
(* Option<T> is a sequence of zero (None) or one (Some) element.           *)
(***************************************************************************)
EXTENDS Integers, Sequences, FiniteSets, TLC

NL    == "\n"
QUOTE == "\""
BSL   == "\\"

None    == <<>>
Some(x) == <<x>>

(***************************************************************************)
(* Characters                                                              *)
(***************************************************************************)

\* UTF-8 encoded length of a scalar (char::len_utf8).
Utf8Len(ch) ==
    IF ch \in {"U+00E9", "U+00A0"} THEN 2
    ELSE IF ch = "U+20AC" THEN 3
    ELSE 1

\* is_whitespace without the tab.
IsWhitespace_NoTab(ch) == ch \in {" ", NL, "U+00A0"}

\* char::is_whitespace (Unicode White_Space), on the characters of the model.
IsWhitespace(ch) == ch \in {" ", NL, "\t", "U+00A0"}

Digits == {"0", "1", "2", "3", "4", "5", "6", "7", "8", "9"}

\* char::to_digit(10) on an ASCII digit.
DigitVal(ch) ==
    CASE ch = "0" -> 0 [] ch = "1" -> 1 [] ch = "2" -> 2 [] ch = "3" -> 3
      [] ch = "4" -> 4 [] ch = "5" -> 5 [] ch = "6" -> 6 [] ch = "7" -> 7
      [] ch = "8" -> 8 [] ch = "9" -> 9

\* The digit character of a value 0..9 (the inverse of DigitVal).
DigitChar(d) == CHOOSE ch \in Digits : DigitVal(ch) = d

(***************************************************************************)
(* Text helpers (std::str)                                                 *)
(***************************************************************************)

RECURSIVE ByteLen(_)
\* str::len: the length in bytes.
ByteLen(s) == IF s = <<>> THEN 0 ELSE Utf8Len(Head(s)) + ByteLen(Tail(s))

Prefix(s, k) == SubSeq(s, 1, k)
Suffix(s, k) == SubSeq(s, k + 1, Len(s))

\* The character counts k at which byte offset n is a character boundary.
Boundary(s, n) == {k \in 0..Len(s) : ByteLen(Prefix(s, k)) = n}

\* (&s[..n], &s[n..]) for a BYTE offset n: panics unless n is a character
\* boundary of s.
ByteSplit(s, n) ==
    IF Boundary(s, n) = {}
    THEN [k |-> "Panic"]
    ELSE LET b == CHOOSE x \in Boundary(s, n) : TRUE
         IN  [k |-> "Ok", a |-> Prefix(s, b), b |-> Suffix(s, b)]

StartsWith(s, p) == Len(s) >= Len(p) /\ Prefix(s, Len(p)) = p

RECURSIVE Replace(_, _, _)
\* str::replace(from, to): non-overlapping matches, left to right.
Replace(s, from, to) ==
    IF s = <<>> THEN <<>>
    ELSE IF StartsWith(s, from) THEN to \o Replace(Suffix(s, Len(from)), from, to)
    ELSE <<Head(s)>> \o Replace(Tail(s), from, to)

RECURSIVE TrimStart(_)
TrimStart(s) ==
    IF s # <<>> /\ IsWhitespace(Head(s)) THEN TrimStart(Tail(s)) ELSE s

RECURSIVE TrimEnd(_)
TrimEnd(s) ==
    IF s # <<>> /\ IsWhitespace(s[Len(s)]) THEN TrimEnd(Prefix(s, Len(s) - 1)) ELSE s

\* str::trim: leading and trailing whitespace removed.
Trim(s) == TrimEnd(TrimStart(s))

\* The number of '\n' in s (split('\n').len() - 1).
Newlines(s) == Cardinality({i \in 1..Len(s) : s[i] = NL})

\* split('\n').last(): the text after the last '\n'.
LastPart(s) ==
    LET nls == {i \in 1..Len(s) : s[i] = NL}
    IN  IF nls = {} THEN s
        ELSE Suffix(s, CHOOSE i \in nls : \A j \in nls : j <= i)

(***************************************************************************)
(* Errors (error/syntax.rs, error/overflow.rs)                             *)
(***************************************************************************)

\* Syntax::new(row, col) with its optional unexpected and expected texts.
Syntax(r, c, un, ex) ==
    [kind |-> "Syntax", row |-> r, col |-> c, unexpected |-> un, expected |-> ex]

\* Overflow::new(row, col).kind(kind).
Overflow(r, c, knd) ==
    [kind |-> "Overflow", row |-> r, col |-> c, unexpected |-> None,
     expected |-> Some(knd)]

(***************************************************************************)
(* The cursor: Json.row and Json.col, with the trace of the running call:   *)
(* the cursor after each consuming step (a branch that sets row and col     *)
(* sets them together; nothing reads the cells in between).                 *)
(***************************************************************************)

NewCursor(r, c) == [row |-> r, col |-> c, tr |-> <<>>]

SetPos(cur, r, c) == [row |-> r, col |-> c, tr |-> Append(cur.tr, <<r, c>>)]
SetCol(cur, c)    == SetPos(cur, cur.row, c)

Ok(cur, a, b) == [k |-> "Ok", c |-> cur, a |-> a, b |-> b]
Err(cur, e)   == [k |-> "Err", c |-> cur, err |-> e]
Panic(cur)    == [k |-> "Panic", c |-> cur]

\* The ? operator: an Err (or a panic) is returned at once, an Ok goes on.
Try(r, Then(_)) == IF r.k # "Ok" THEN r ELSE Then(r)

\* consume_all with the row set from the text alone, the current row forgotten.
consume_all_RowFromText(cur, input) ==
    IF Newlines(input) > 0
    THEN SetPos(cur, Newlines(input), ByteLen(LastPart(input)))
    ELSE SetCol(cur, cur.col + ByteLen(LastPart(input)))

\* Json::consume_all
consume_all(cur, input) ==
    IF Newlines(input) > 0
    THEN SetPos(cur, cur.row + Newlines(input), ByteLen(LastPart(input)))
    ELSE SetCol(cur, cur.col + ByteLen(LastPart(input)))

\* Json::take_expected
take_expected(cur, input, expected) ==
    IF StartsWith(input, expected)
    THEN Ok(cur, expected, Suffix(input, Len(expected)))
    ELSE IF input # <<>>
         THEN Err(cur, Syntax(cur.row, cur.col, Some(<<Head(input)>>), Some(expected)))
         ELSE Err(cur, Syntax(cur.row, cur.col, None, Some(expected)))

\* consume_expected without the consume_all of the literal taken.
consume_expected_NoAdvance(cur, input, expected) ==
    take_expected(cur, input, expected)

\* Json::consume_expected
consume_expected(cur, input, expected) ==
    Try(take_expected(cur, input, expected),
        LAMBDA taken : Ok(consume_all(cur, taken.a), taken.a, taken.b))

RECURSIVE WhitespaceLoop(_, _, _)
\* The for loop of Json::consume_whitespace from character i on: the cursor
\* after it and the character index found (0 when the input is exhausted).
WhitespaceLoop(cur, input, i) ==
    IF i > Len(input) THEN [c |-> cur, found |-> 0]
    ELSE IF input[i] = NL
         THEN WhitespaceLoop(SetPos(cur, cur.row + 1, 1), input, i + 1)
    ELSE IF IsWhitespace(input[i])
         THEN WhitespaceLoop(SetCol(cur, cur.col + 1), input, i + 1)
    ELSE [c |-> cur, found |-> i]

\* found.map_or((input, ""), |f| (&input[..f], &input[f..])): the character
\* index found is used as a byte index.
SplitAtFound(cur, input, found, sp) ==
    IF found = 0 THEN Ok(cur, input, <<>>)
    ELSE IF sp.k = "Panic" THEN Panic(cur)
    ELSE Ok(cur, sp.a, sp.b)

WhitespaceSplit(l, input) ==
    SplitAtFound(l.c, input, l.found, ByteSplit(input, l.found - 1))

\* Json::consume_whitespace
consume_whitespace(cur, input) == WhitespaceSplit(WhitespaceLoop(cur, input, 1), input)

RECURSIVE UntilLoopNoQuote(_, _, _, _, _)
\* The take_until loop without the inside-quote flag.
UntilLoopNoQuote(input, until, i, quote, backslash) ==
    IF i > Len(input) THEN 0
    ELSE IF ~(until = QUOTE /\ backslash) /\ input[i] = until THEN i
    ELSE IF input[i] = BSL /\ ~backslash
         THEN UntilLoopNoQuote(input, until, i + 1, quote, TRUE)
    ELSE UntilLoopNoQuote(input, until, i + 1, quote, FALSE)

RECURSIVE UntilLoop(_, _, _, _, _)
\* The for loop of Json::take_until from character i on: the character index
\* of the delimiter found (0 when there is none).
UntilLoop(input, until, i, quote, backslash) ==
    IF i > Len(input) THEN 0
    ELSE IF ~(quote \/ (until = QUOTE /\ backslash)) /\ input[i] = until THEN i
    ELSE IF input[i] = QUOTE /\ ~backslash
         THEN UntilLoop(input, until, i + 1, ~quote, FALSE)
    ELSE IF input[i] = BSL /\ ~backslash
         THEN UntilLoop(input, until, i + 1, quote, TRUE)
    ELSE UntilLoop(input, until, i + 1, quote, FALSE)

\* The error of Json::take_until, made after the whole input was consumed.
UntilError(c2, input, until) ==
    IF input # <<>>
    THEN Err(c2, Syntax(c2.row, c2.col, Some(<<input[Len(input)]>>), Some(<<until>>)))
    ELSE Err(c2, Syntax(c2.row, c2.col, None, Some(<<until>>)))

UntilSplit(cur, input, until, found) ==
    IF found # 0
    THEN SplitAtFound(cur, input, found, ByteSplit(input, found - 1))
    ELSE UntilError(consume_all(cur, input), input, until)

\* Json::take_until: the split uses the character index as a byte index; when
\* the delimiter is missing the whole input is consumed before the error.
take_until(cur, input, until) ==
    UntilSplit(cur, input, until, UntilLoop(input, until, 1, FALSE, FALSE))

\* Json::consume_until
consume_until(cur, input, until) ==
    Try(take_until(cur, input, until),
        LAMBDA taken : Ok(consume_all(taken.c, taken.a), taken.a, taken.b))

\* decode_string consuming what it scans: the opening quote and the content.
decode_string_Consuming(cur, input) ==
    Try(consume_expected(cur, input, <<QUOTE>>), LAMBDA st :
    Try(consume_until(st.c, st.b, QUOTE), LAMBDA tk :
        Ok(tk.c, Replace(Replace(tk.a, <<BSL, QUOTE>>, <<QUOTE>>), <<BSL, BSL>>, <<BSL>>),
           <<>>)))

\* Json::decode_string
decode_string(cur, input) ==
    Try(take_expected(cur, input, <<QUOTE>>), LAMBDA st :
    Try(take_until(cur, st.b, QUOTE), LAMBDA tk :
        Ok(cur, Replace(Replace(tk.a, <<BSL, QUOTE>>, <<QUOTE>>), <<BSL, BSL>>, <<BSL>>),
           <<>>)))

(***************************************************************************)
(* Types and values                                                        *)
(*                                                                         *)
(* A primitive type is [k |-> "prim", n |-> its name]; a tuple type is     *)
(* [k |-> "tuple", el |-> the sequence of its element types].  An integer   *)
(* value is an integer, a bool a BOOLEAN, unit is "()", a char is a        *)
(* character, a String is a text, a tuple is the sequence of its elements. *)
(***************************************************************************)

Prim(n)   == [k |-> "prim", n |-> n]
TupleOf(el) == [k |-> "tuple", el |-> el]

\* The integer types of the model.  The twelve visit_<int> methods differ only
\* in the type passed to str::parse and in the kind name; the model keeps the
\* widths whose bounds fit the integers of the model checker.
SignedKinds   == {"i8", "i16"}
UnsignedKinds == {"u8", "u16"}
IntKinds      == SignedKinds \cup UnsignedKinds

\* kind.starts_with('u') and kind.starts_with('f') in syntax_error_number.
StartsWithU(kind) == kind \in UnsignedKinds
StartsWithF(kind) == kind \in {"f32", "f64"}

Bits(kind) == IF kind \in {"i8", "u8"} THEN 8 ELSE 16

\* <int>::MIN and <int>::MAX
IntMin(kind) == IF kind \in SignedKinds THEN -(2 ^ (Bits(kind) - 1)) ELSE 0
IntMax(kind) ==
    IF kind \in SignedKinds THEN 2 ^ (Bits(kind) - 1) - 1 ELSE 2 ^ Bits(kind) - 1

(***************************************************************************)
(* str::parse::<int> (core::num::from_str_radix, radix 10), as called by   *)
(* every visit_<int>: the value, or the IntErrorKind.                      *)
(***************************************************************************)

RECURSIVE ParseDigits(_, _, _, _)
\* The digit loop: checked_mul(10), to_digit, then checked_add / checked_sub.
\* An invalid digit is reported before an overflow at the same character.
ParseDigits(kind, digits, positive, acc) ==
    IF digits = <<>> THEN [k |-> "Ok", v |-> acc]
    ELSE IF Head(digits) \notin Digits THEN [k |-> "InvalidDigit"]
    ELSE LET next == IF positive THEN acc * 10 + DigitVal(Head(digits))
                     ELSE acc * 10 - DigitVal(Head(digits))
         IN  IF next > IntMax(kind) THEN [k |-> "PosOverflow"]
             ELSE IF next < IntMin(kind) THEN [k |-> "NegOverflow"]
             ELSE ParseDigits(kind, Tail(digits), positive, next)

ParseInt(kind, src) ==
    IF src = <<>> THEN [k |-> "Empty"]
    ELSE IF Head(src) \in {"+", "-"} /\ Len(src) = 1 THEN [k |-> "InvalidDigit"]
    ELSE IF Head(src) = "+" THEN ParseDigits(kind, Tail(src), TRUE, 0)
    ELSE IF Head(src) = "-" /\ kind \in SignedKinds
         THEN ParseDigits(kind, Tail(src), FALSE, 0)
    ELSE ParseDigits(kind, src, TRUE, 0)

RECURSIVE NumberLoop(_, _, _, _, _, _)
\* The for loop of Json::syntax_error_number from character i on.
NumberLoop(cur, input, kind, i, first, dot) ==
    IF i > Len(input)
    THEN Err(cur, Syntax(cur.row, cur.col, None, Some(<<kind>>)))
    ELSE IF input[i] \in Digits
         THEN NumberLoop(SetCol(cur, cur.col + 1), input, kind, i + 1, FALSE, dot)
    ELSE IF input[i] = "-" /\ first /\ ~StartsWithU(kind)
         THEN NumberLoop(SetCol(cur, cur.col + 1), input, kind, i + 1, FALSE, dot)
    ELSE IF input[i] = "." /\ ~dot /\ StartsWithF(kind)
         THEN NumberLoop(SetCol(cur, cur.col + 1), input, kind, i + 1, FALSE, TRUE)
    ELSE Err(cur, Syntax(cur.row, cur.col, Some(<<input[i]>>), None))

\* Json::syntax_error_number
syntax_error_number(cur, input, kind) == NumberLoop(cur, input, kind, 1, TRUE, FALSE)

\* convert_int_error with the overflow kinds left to the catch-all arm.
convert_int_error_NoOverflow(cur, errkind, input, kind) ==
    IF errkind = "Empty"
    THEN Err(cur, Syntax(cur.row, cur.col, None, Some(<<kind>>)))
    ELSE IF errkind = "InvalidDigit" THEN syntax_error_number(cur, input, kind)
    ELSE Err(cur, Syntax(cur.row, cur.col, None, None))

\* Json::convert_int_error
convert_int_error(cur, errkind, input, kind) ==
    IF errkind = "Empty"
    THEN Err(cur, Syntax(cur.row, cur.col, None, Some(<<kind>>)))
    ELSE IF errkind = "InvalidDigit" THEN syntax_error_number(cur, input, kind)
    ELSE IF errkind \in {"PosOverflow", "NegOverflow"}
         THEN Err(cur, Overflow(cur.row, cur.col, <<kind>>))
    ELSE Err(cur, Syntax(cur.row, cur.col, None, None))

\* The result of a visit_<int> once the leading whitespace is consumed (ws)
\* and the trimmed text is parsed.
IntResult(ws, kind, parsed) ==
    IF parsed.k # "Ok"
    THEN convert_int_error(ws.c, parsed.k, Trim(ws.b), kind)
    ELSE Ok(consume_all(ws.c, ws.b), parsed.v, <<>>)

\* Json::visit_i8 .. visit_usize
visit_int(cur, kind, input) ==
    Try(consume_whitespace(cur, input), LAMBDA ws :
        IntResult(ws, kind, ParseInt(kind, Trim(ws.b))))

TRUE_TEXT  == <<"t", "r", "u", "e">>
FALSE_TEXT == <<"f", "a", "l", "s", "e">>
NULL_TEXT  == <<"n", "u", "l", "l">>

\* Json::visit_bool
visit_bool(cur, input) ==
    Try(consume_whitespace(cur, input), LAMBDA ws :
        IF Trim(ws.b) \notin {TRUE_TEXT, FALSE_TEXT}
        THEN Err(ws.c, Syntax(ws.c.row, ws.c.col, Some(input), Some(<<"bool">>)))
        ELSE Ok(consume_all(ws.c, ws.b), Trim(ws.b) = TRUE_TEXT, <<>>))

\* Json::visit_unit
visit_unit(cur, input) ==
    Try(consume_whitespace(cur, input), LAMBDA ws :
        IF Trim(ws.b) # NULL_TEXT
        THEN Err(ws.c, Syntax(ws.c.row, ws.c.col, Some(input), Some(<<"null">>)))
        ELSE Ok(consume_all(ws.c, ws.b), "()", <<>>))

\* The end of visit_char, visit_string and visit_tuple_N: after the trailing
\* whitespace (ws) anything left is an error.
EndOfInput(ws, result) ==
    IF ws.b # <<>>
    THEN Err(ws.c, Syntax(ws.c.row, ws.c.col, Some(<<Head(ws.b)>>), None))
    ELSE Ok(ws.c, result, <<>>)

\* The tail shared by visit_char and visit_string: consume the quoted text
\* and the whitespace after it, and reject anything that follows.
QuotedTail(cur, trim, result) ==
    Try(consume_expected(cur, trim, <<QUOTE>>), LAMBDA q1 :
    Try(consume_until(q1.c, q1.b, QUOTE), LAMBDA un :
    Try(consume_expected(un.c, un.b, <<QUOTE>>), LAMBDA q2 :
    Try(consume_whitespace(q2.c, q2.b), LAMBDA ws :
        EndOfInput(ws, result)))))

\* Json::visit_char: the length test is on the decoded text's byte length.
visit_char(cur, input) ==
    Try(consume_whitespace(cur, input), LAMBDA ws :
    Try(decode_string(ws.c, Trim(ws.b)), LAMBDA dec :
        IF ByteLen(dec.a) > 1
        THEN Err(dec.c, Overflow(dec.c.row, dec.c.col, <<"char">>))
        ELSE IF dec.a = <<>>
        THEN Err(dec.c, Syntax(dec.c.row, dec.c.col + 1, Some(<<QUOTE>>), None))
        ELSE QuotedTail(dec.c, ws.b, Head(dec.a))))

\* Json::visit_string
visit_string(cur, input) ==
    Try(consume_whitespace(cur, input), LAMBDA ws :
    Try(decode_string(ws.c, Trim(ws.b)), LAMBDA dec :
        QuotedTail(dec.c, ws.b, dec.a)))

RECURSIVE deserialize(_, _, _)
RECURSIVE TupleLoop(_, _, _, _, _)

\* The delimiter with the closing bracket never looked for.
Delimiter_AlwaysComma(i, n) == ","

\* The delimiter after element i of a tuple of n elements.
Delimiter(i, n) == IF i < n THEN "," ELSE "]"

\* The element steps with the element's text consumed before it is decoded.
TupleLoop_ConsumeFirst(cur, el, i, remainder, acc) ==
    Try(consume_until(cur, remainder, Delimiter(i, Len(el))), LAMBDA tk :
    Try(deserialize(tk.c, el[i], tk.a), LAMBDA d :
    Try(consume_expected(d.c, tk.b, <<Delimiter(i, Len(el))>>), LAMBDA ce :
        IF i < Len(el)
        THEN TupleLoop(ce.c, el, i + 1, ce.b, Append(acc, d.a))
        ELSE Try(consume_whitespace(ce.c, ce.b), LAMBDA ws :
                 EndOfInput(ws, Append(acc, d.a))))))

\* The element steps of Json::visit_tuple_N from element i on: take_until,
\* the element's deserialize, consume_expected of the delimiter; after the
\* last element the trailing whitespace and the end-of-input test.
TupleLoop(cur, el, i, remainder, acc) ==
    Try(take_until(cur, remainder, Delimiter(i, Len(el))), LAMBDA tk :
    Try(deserialize(tk.c, el[i], tk.a), LAMBDA d :
    Try(consume_expected(d.c, tk.b, <<Delimiter(i, Len(el))>>), LAMBDA ce :
        IF i < Len(el)
        THEN TupleLoop(ce.c, el, i + 1, ce.b, Append(acc, d.a))
        ELSE Try(consume_whitespace(ce.c, ce.b), LAMBDA ws :
                 EndOfInput(ws, Append(acc, d.a))))))

\* Json::visit_tuple_1 .. visit_tuple_12
visit_tuple(cur, el, input) ==
    Try(consume_whitespace(cur, input), LAMBDA ws :
    Try(consume_expected(ws.c, ws.b, <<"[">>), LAMBDA br :
        TupleLoop(br.c, el, 1, br.b, <<>>)))

\* Json::deserialize with Deserialize::accept of the requested type: each type
\* calls the visit method of its own shape.
deserialize(cur, ty, input) ==
    IF ty.k = "tuple" THEN visit_tuple(cur, ty.el, input)
    ELSE IF ty.n \in IntKinds THEN visit_int(cur, ty.n, input)
    ELSE IF ty.n = "bool" THEN visit_bool(cur, input)
    ELSE IF ty.n = "unit" THEN visit_unit(cur, input)
    ELSE IF ty.n = "char" THEN visit_char(cur, input)
    ELSE visit_string(cur, input)

(***************************************************************************)
(* The Json serializer (serialize/json.rs)                                 *)
(***************************************************************************)

RECURSIVE NatToText(_)
\* The decimal digits of a natural number.
NatToText(n) ==
    IF n < 10 THEN <<DigitChar(n)>>
    ELSE Append(NatToText(n \div 10), DigitChar(n % 10))

\* to_string that drops the sign.
IntToTextNoSign(v) == IF v < 0 THEN NatToText(-v) ELSE NatToText(v)

\* <int>::to_string
IntToText(v) == IF v < 0 THEN <<"-">> \o NatToText(-v) ELSE NatToText(v)

\* encode_string with the two replacements in the other order.
encode_string_QuoteFirst(input) ==
    <<QUOTE>> \o Replace(Replace(input, <<QUOTE>>, <<BSL, QUOTE>>), <<BSL>>, <<BSL, BSL>>)
              \o <<QUOTE>>

\* serialize::Json::encode_string
encode_string(input) ==
    <<QUOTE>> \o Replace(Replace(input, <<BSL>>, <<BSL, BSL>>), <<QUOTE>>, <<BSL, QUOTE>>)
              \o <<QUOTE>>

RECURSIVE serialize(_, _)
RECURSIVE JoinElements(_, _, _)

\* The format string with a separator after every element, the last included.
JoinElements_Trailing(el, v, i) ==
    IF i > Len(el) THEN <<>>
    ELSE serialize(el[i], v[i]) \o <<",", " ">> \o JoinElements(el, v, i + 1)

\* The "{}, {}, ..." part of the format string of serialize visit_tuple_N.
JoinElements(el, v, i) ==
    IF i > Len(el) THEN <<>>
    ELSE (IF i > 1 THEN <<",", " ">> ELSE <<>>)
         \o serialize(el[i], v[i]) \o JoinElements(el, v, i + 1)

\* serialize::Json::serialize with Serialize::accept of the value's type.
serialize(ty, v) ==
    IF ty.k = "tuple" THEN <<"[">> \o JoinElements(ty.el, v, 1) \o <<"]">>
    ELSE IF ty.n \in IntKinds THEN IntToText(v)
    ELSE IF ty.n = "bool" THEN (IF v THEN TRUE_TEXT ELSE FALSE_TEXT)
    ELSE IF ty.n = "unit" THEN NULL_TEXT
    ELSE IF ty.n = "char" THEN encode_string(<<v>>)
    ELSE encode_string(v)

(***************************************************************************)
(* The program state: one Json deserializer (its row and col cells), the   *)
(* call in progress and its result.                                        *)
(***************************************************************************)

VARIABLES
    ty,       \* the type requested from deserialize::<T>
    value,    \* the value given to serialize (round trips), else None
    input,    \* the text given to deserialize
    row,      \* Json.row
    col,      \* Json.col
    pending,  \* the cursor updates the running deserialize has still to make
    ret,      \* what the running deserialize will return
    result,   \* what the last finished deserialize returned
    calls,    \* the number of deserialize calls made on this Json
    pc        \* "value", "ready", "running", "done"

vars == <<ty, value, input, row, col, pending, ret, result, calls, pc>>

NoResult == [k |-> "None"]

\* What the caller sees of a call: Ok(value), Err(error), or a panic.
Outcome(r) ==
    IF r.k = "Ok" THEN [k |-> "Ok", v |-> r.a]
    ELSE IF r.k = "Err" THEN [k |-> "Err", err |-> r.err]
    ELSE [k |-> "Panic"]

\* Json::new(): the cursor starts at row 1, col 1.
JsonNew ==
    /\ row = 1
    /\ col = 1
    /\ pending = <<>>
    /\ ret = NoResult
    /\ result = NoResult
    /\ calls = 0

\* A fresh Json and a value about to be serialized and decoded again.
StartValue(t, v) ==
    /\ JsonNew
    /\ ty = t
    /\ value = v
    /\ input = <<>>
    /\ pc = "value"

\* A fresh Json and a text about to be decoded as type t.
StartText(t, txt) ==
    /\ JsonNew
    /\ ty = t
    /\ value = None
    /\ input = txt
    /\ pc = "ready"

\* serialize::Json::new().serialize(&value)
Serialize ==
    /\ pc = "value"
    /\ input' = serialize(ty, value)
    /\ pc' = "ready"
    /\ UNCHANGED <<ty, value, row, col, pending, ret, result, calls>>

\* The call r is under way: its cursor updates are still to come.
Started(r) ==
    /\ pending' = r.c.tr
    /\ ret' = Outcome(r)

\* Json::deserialize::<ty>(&input) is called on the Json, from its current
\* cursor.
Deserialize ==
    /\ pc = "ready"
    /\ Started(deserialize(NewCursor(row, col), ty, input))
    /\ calls' = calls + 1
    /\ pc' = "running"
    /\ UNCHANGED <<ty, value, input, row, col, result>>

\* The next consuming step of the running call moves the cursor.
Advance ==
    /\ pc = "running"
    /\ pending # <<>>
    /\ row' = Head(pending)[1]
    /\ col' = Head(pending)[2]
    /\ pending' = Tail(pending)
    /\ UNCHANGED <<ty, value, input, ret, result, calls, pc>>

\* The call returns (or unwinds).
Return ==
    /\ pc = "running"
    /\ pending = <<>>
    /\ result' = ret
    /\ pc' = "done"
    /\ UNCHANGED <<ty, value, input, row, col, pending, ret, calls>>

(***************************************************************************)
(* Round trips: deserialize(serialize(v)) on a fresh Json                  *)
(***************************************************************************)

\* Bounds of the round-trip inputs.
MaxStrLen == 4
Edge      == 12

\* The largest tuple arity: visit_tuple_12.
MaxArity  == 12

\* All texts over an alphabet up to a length.
Texts(alphabet, n) == UNION {[1..k -> alphabet] : k \in 0..n}

\* Every 8-bit value; the values near MIN, 0 and MAX of the wider types.
IntValues(kind) ==
    {v \in IntMin(kind)..IntMax(kind) :
        \/ Bits(kind) = 8
        \/ v <= IntMin(kind) + Edge
        \/ v >= IntMax(kind) - Edge
        \/ (v >= -Edge /\ v <= Edge)}

AsciiChars   == {"a", "0", ",", "]", "[", " ", NL, QUOTE, BSL}
WideChars    == {"U+00E9", "U+20AC", "U+00A0"}
TextAlphabet == {"a", ",", QUOTE, BSL}

\* Non-tuple elements of every shape, with the delimiters inside chars and
\* Strings.
Pool ==
    << [ty |-> Prim("u8"),     v |-> 255],
       [ty |-> Prim("char"),   v |-> ","],
       [ty |-> Prim("i16"),    v |-> -32768],
       [ty |-> Prim("String"), v |-> <<",", " ", "]">>],
       [ty |-> Prim("bool"),   v |-> TRUE],
       [ty |-> Prim("char"),   v |-> QUOTE],
       [ty |-> Prim("unit"),   v |-> "()"],
       [ty |-> Prim("String"), v |-> <<BSL, QUOTE, ",">>],
       [ty |-> Prim("char"),   v |-> "]"],
       [ty |-> Prim("i8"),     v |-> -1],
       [ty |-> Prim("String"), v |-> <<>>],
       [ty |-> Prim("char"),   v |-> BSL],
       [ty |-> Prim("bool"),   v |-> FALSE] >>

PoolAt(i) == Pool[((i - 1) % Len(Pool)) + 1]

\* The n-tuple whose elements are the n pool entries from offset o on.
TupleType(n, o)  == TupleOf([i \in 1..n |-> PoolAt(o + i - 1).ty])
TupleValue(n, o) == [i \in 1..n |-> PoolAt(o + i - 1).v]

\* Tuples that have a tuple as an element.
NestedJobs ==
    << [ty |-> TupleOf(<<TupleOf(<<Prim("u8"), Prim("u8")>>), Prim("u8")>>),
        v  |-> <<<<1, 2>>, 3>>],
       [ty |-> TupleOf(<<TupleOf(<<Prim("u8")>>)>>),
        v  |-> <<<<1>>>>],
       [ty |-> TupleOf(<<Prim("u8"), TupleOf(<<Prim("u8"), Prim("u8")>>)>>),
        v  |-> <<1, <<2, 3>>>>],
       [ty |-> TupleOf(<<Prim("bool"), TupleOf(<<Prim("char")>>)>>),
        v  |-> <<TRUE, <<"a">>>>] >>

InitRT ==
    \/ \E kind \in IntKinds : \E v \in IntValues(kind) : StartValue(Prim(kind), v)
    \/ \E s \in Texts(TextAlphabet, MaxStrLen) : StartValue(Prim("String"), s)
    \/ \E c \in AsciiChars \cup WideChars : StartValue(Prim("char"), c)
    \/ \E b \in BOOLEAN : StartValue(Prim("bool"), b)
    \/ StartValue(Prim("unit"), "()")
    \/ \E n \in 1..MaxArity : \E o \in 1..Len(Pool) :
           StartValue(TupleType(n, o), TupleValue(n, o))
    \/ \E a \in 1..Len(Pool) : \E b \in 1..Len(Pool) :
           StartValue(TupleOf(<<Pool[a].ty, Pool[b].ty>>), <<Pool[a].v, Pool[b].v>>)
    \/ \E i \in 1..Len(NestedJobs) : StartValue(NestedJobs[i].ty, NestedJobs[i].v)

NextRT == Serialize \/ Deserialize \/ Advance \/ Return

SpecRT == InitRT /\ [][NextRT]_vars

IsInt(t)    == t.k = "prim" /\ t.n \in IntKinds
IsPrim(t, n) == t.k = "prim" /\ t.n = n
IsFlatTuple(t) == t.k = "tuple" /\ \A i \in 1..Len(t.el) : t.el[i].k = "prim"
IsNestedTuple(t) == t.k = "tuple" /\ \E i \in 1..Len(t.el) : t.el[i].k = "tuple"

Done == pc = "done"
RoundTripOk == result.k = "Ok" /\ result.v = value

(***************************************************************************)
(* Integer texts decoded on a fresh Json                                   *)
(***************************************************************************)

\* Bounds of the integer texts.
MaxNumLen == 3
MaxLead   == 2

NumAlphabet == {"0", "1", "9", "-", "+", " ", NL, "x"}

\* The texts at the edges of a type's range: MAX and MIN themselves, one past
\* them, and each with a digit '0' appended.
BoundaryTexts(kind) ==
    { IntToText(IntMax(kind)), IntToText(IntMin(kind)),
      IntToText(IntMax(kind) + 1), IntToText(IntMin(kind) - 1),
      IntToText(IntMax(kind)) \o <<"0">>, IntToText(IntMin(kind)) \o <<"0">> }

InitInt ==
    \/ \E kind \in IntKinds : \E txt \in Texts(NumAlphabet, MaxNumLen) :
           StartText(Prim(kind), txt)
    \/ \E kind \in IntKinds : \E lead \in Texts({" ", NL}, MaxLead) :
           \E txt \in BoundaryTexts(kind) : StartText(Prim(kind), lead \o txt)

NextCall == Deserialize \/ Advance \/ Return

SpecInt == InitInt /\ [][NextCall]_vars

(***************************************************************************)
(* Texts of every shape decoded on one Json, which may be called again     *)
(***************************************************************************)

\* Bounds of the texts and of the calls made on one Json.
MaxRawLen   == 4
MaxTupleLen == 5
MaxPad      == 1
MaxCalls    == 2

Literals == {TRUE_TEXT, FALSE_TEXT, NULL_TEXT, <<"x">>, <<>>}

\* The calls made on a Json that has been used before.
ReuseJobs ==
    << [ty |-> Prim("bool"), txt |-> TRUE_TEXT],
       [ty |-> Prim("u8"),   txt |-> <<"1", "x">>],
       [ty |-> TupleOf(<<Prim("u8")>>), txt |-> <<NL, "[", "1", "]", NL>>] >>

TupleTypes ==
    { TupleOf(<<Prim("u8")>>), TupleOf(<<Prim("u8"), Prim("u8")>>) }

Init ==
    \/ \E kind \in {"i8", "u8"} : \E txt \in Texts({"1", "-", " ", NL, "x"}, MaxNumLen) :
           StartText(Prim(kind), txt)
    \/ \E n \in {"bool", "unit"} : \E lead \in Texts({" ", NL}, MaxPad) :
           \E lit \in Literals : \E trail \in Texts({" ", NL}, MaxPad) :
               StartText(Prim(n), lead \o lit \o trail)
    \/ \E n \in {"char", "String"} : \E txt \in Texts({QUOTE, BSL, "a", " ", NL}, MaxRawLen) :
           StartText(Prim(n), txt)
    \/ \E t \in TupleTypes : \E txt \in Texts({"[", "]", ",", "1", NL}, MaxTupleLen) :
           StartText(t, txt)

\* deserialize is called again on the same Json, with another text.
Reuse ==
    /\ pc = "done"
    /\ result.k # "Panic"
    /\ calls < MaxCalls
    /\ \E i \in 1..Len(ReuseJobs) :
           /\ ty' = ReuseJobs[i].ty
           /\ input' = ReuseJobs[i].txt
    /\ pc' = "ready"
    /\ UNCHANGED <<value, row, col, pending, ret, result, calls>>

Next == Deserialize \/ Advance \/ Return \/ Reuse

Spec == Init /\ [][Next]_vars

(***************************************************************************)
(* Properties                                                              *)
(***************************************************************************)

IsSyntax(res)   == res.k = "Err" /\ res.err.kind = "Syntax"
IsOverflow(res) == res.k = "Err" /\ res.err.kind = "Overflow"

\* Overflow{type_name: kind} reported at (r, c).
IsOverflowAt(res, kind, r, c) ==
    /\ IsOverflow(res)
    /\ res.err.expected = Some(<<kind>>)
    /\ res.err.row = r
    /\ res.err.col = c

\* C1: every integer value survives the round trip: on a fresh Json,
\* deserialize::<T>(serialize(v)) is Ok(v), for MIN, MAX, 0, 1, -1 and the
\* other values of each integer type.
C1_IntRoundTrip == Done /\ IsInt(ty) => RoundTripOk

C1_Witness ==
    Done /\ IsPrim(ty, "i16") /\ value = IntMin("i16") /\ RoundTripOk

\* C2: every ASCII text, with any mix and order of backslashes and double
\* quotes, survives the round trip as a String: the decoder's scan and
\* unescape order invert the encoder's escaping.
C2_StringRoundTrip == Done /\ IsPrim(ty, "String") => RoundTripOk

C2_Witness ==
    Done /\ IsPrim(ty, "String") /\ value = <<BSL, QUOTE, BSL>> /\ RoundTripOk

\* C3: a tuple of any arity 1..12 whose elements are non-tuple values, also
\* elements that contain ',' ']' '"' or '\', survives the round trip with each
\* element at its index.
C3_TupleRoundTrip == Done /\ IsFlatTuple(ty) => RoundTripOk

C3_Witness ==
    Done /\ IsFlatTuple(ty) /\ Len(ty.el) = MaxArity /\ RoundTripOk

\* C4: a tuple that has a tuple as an element survives the round trip: the
\* outer tuple's scan for ',' or ']' does not stop inside the inner tuple.
C4_NestedRoundTrip == Done /\ IsNestedTuple(ty) => RoundTripOk

\* C5: every char survives the round trip, also a scalar whose UTF-8 encoding
\* is longer than one byte.
C5_CharRoundTrip == Done /\ IsPrim(ty, "char") => RoundTripOk

\* A '0' followed by further digits.
LeadingZero(t) == Len(t) >= 2 /\ t[1] = "0" /\ \A i \in 2..Len(t) : t[i] \in Digits

\* C6: for every integer type a '0' followed by further digits ("01") fails
\* with Syntax{unexpected: "0", expected: "1-9"}, and "0" alone decodes to 0.
C6_LeadingZeroRule ==
    Done /\ IsInt(ty) =>
        /\ LeadingZero(Trim(input)) =>
               /\ IsSyntax(result)
               /\ result.err.unexpected = Some(<<"0">>)
               /\ result.err.expected = Some(<<"1-9">>)
        /\ Trim(input) = <<"0">> => result.k = "Ok" /\ result.v = 0

MaxPlusZero(kind) == IntToText(IntMax(kind)) \o <<"0">>
MinPlusZero(kind) == IntToText(IntMin(kind)) \o <<"0">>

\* C7 as stated: for every integer type, signed and unsigned, the text of MAX
\* with '0' appended and the text of MIN with '0' appended each return
\* Overflow{type} at (1, 1).
C7_OverflowBoundaryAll ==
    Done /\ IsInt(ty) /\ input \in {MaxPlusZero(ty.n), MinPlusZero(ty.n)} =>
        IsOverflowAt(result, ty.n, 1, 1)

\* Where a number starts after the leading whitespace lead, on a fresh Json.
StartRow(lead) == 1 + Newlines(lead)
StartCol(lead) == 1 + Len(LastPart(lead))

\* C7 as amended: MAX with '0' appended returns Overflow{type} for every
\* integer type, MIN with '0' appended for every signed type, at the position
\* where the number starts; for an unsigned type MIN with '0' appended is
\* "00", which is not an overflow.
C7_OverflowBoundary ==
    Done /\ IsInt(ty) =>
        \A lead \in Texts({" ", NL}, MaxLead) :
            /\ (\/ input = lead \o MaxPlusZero(ty.n)
                \/ (ty.n \in SignedKinds /\ input = lead \o MinPlusZero(ty.n)))
               => IsOverflowAt(result, ty.n, StartRow(lead), StartCol(lead))
            /\ (ty.n \in UnsignedKinds /\ input = lead \o MinPlusZero(ty.n))
               => ~IsOverflow(result)

C7_Witness ==
    /\ Done
    /\ IsPrim(ty, "i16")
    /\ input = <<NL, " ">> \o MinPlusZero("i16")
    /\ IsOverflowAt(result, "i16", 2, 2)

\* The integer wire grammar: an optional '-' (signed types only), then digits.
WellFormedInt(kind, t) ==
    LET d == IF t # <<>> /\ t[1] = "-" /\ kind \in SignedKinds THEN Tail(t) ELSE t
    IN  d # <<>> /\ \A i \in 1..Len(d) : d[i] \in Digits

\* C8: an integer decode returns Ok only when the trimmed input is an optional
\* single leading '-' (signed types only) followed by ASCII digits; any other
\* trimmed input, such as one that starts with '+', is rejected.
C8_IntGrammar ==
    Done /\ IsInt(ty) /\ result.k = "Ok" => WellFormedInt(ty.n, Trim(input))

\* C9: the cursor is 1-indexed in every reachable state: row >= 1 and
\* col >= 1, also right after input that ends in a newline was consumed.
C9_OneIndexed == row >= 1 /\ col >= 1

\* C10: the cursor only moves forward: in every step row does not decrease,
\* and col decreases only in a step that increases row.
C10_CursorForward == [][row' > row \/ (row' = row /\ col' >= col)]_vars

C10_Witness ==
    Done /\ calls = MaxCalls /\ result.k = "Err" /\ row > 2

(***************************************************************************)
(* Malformed and multi-line texts decoded on a fresh Json                  *)
(***************************************************************************)

\* Bounds of the malformed texts.
MaxListArity == 2
MaxGap       == 1
MaxContent   == 2

\* The element types of the lists.
ElemTypes == {"u8", "bool", "unit", "char", "String"}

\* A valid text of a value of each element type; the second variant holds the
\* largest u8, a char longer than one byte and an escaped quote.
ElemText(n, variant) ==
    IF n = "u8" THEN (IF variant = 1 THEN <<"2", "5">> ELSE <<"2", "5", "5">>)
    ELSE IF n = "bool" THEN (IF variant = 1 THEN TRUE_TEXT ELSE FALSE_TEXT)
    ELSE IF n = "unit" THEN NULL_TEXT
    ELSE IF n = "char"
         THEN (IF variant = 1 THEN <<QUOTE, ",", QUOTE>> ELSE <<QUOTE, "U+00E9", QUOTE>>)
    ELSE (IF variant = 1 THEN <<QUOTE, "a", "]", QUOTE>>
          ELSE <<QUOTE, BSL, QUOTE, QUOTE>>)

\* The type of the i-th element written in a list for the tuple type el: a
\* surplus element has the type of the last one.
ListElem(el, i) == IF i <= Len(el) THEN el[i].n ELSE el[Len(el)].n

RECURSIVE JoinList(_, _, _, _)
\* Elements i..m of the list, joined by ", ".
JoinList(el, m, i, variant) ==
    IF i > m THEN <<>>
    ELSE (IF i > 1 THEN <<",", " ">> ELSE <<>>)
         \o ElemText(ListElem(el, i), variant) \o JoinList(el, m, i + 1, variant)

\* A list of m valid elements with or without its brackets, and what follows.
ListText(el, m, open, close, trail, variant) ==
    (IF open THEN <<"[">> ELSE <<>>) \o JoinList(el, m, 1, variant)
        \o (IF close THEN <<"]">> ELSE <<>>) \o trail

Trails == {<<>>, <<"x">>}

\* The tuple types of one to n elements over the element types.
ListTypes(n) == UNION {[1..k -> {Prim(e) : e \in ElemTypes}] : k \in 1..n}

\* A two-element list whose elements are a number or a letter, with
\* whitespace around the comma.
GapText(e1, p, q, e2) == <<"[">> \o e1 \o p \o <<",">> \o q \o e2 \o <<"]">>

GapElems == {<<"1">>, <<"x">>}

\* What may follow a boundary text or a quoted text.
Tails == {<<>>, <<"x">>, <<" ">>, <<" ", "x">>}

InitErr ==
    \/ \E el \in ListTypes(MaxListArity) : \E m \in 0..(Len(el) + 1) :
           \E open \in BOOLEAN : \E close \in BOOLEAN : \E trail \in Trails :
               \E variant \in 1..2 :
                   StartText(TupleOf(el), ListText(el, m, open, close, trail, variant))
    \/ \E n \in 1..MaxArity : \E o \in 1..Len(Pool) :
           StartText(TupleType(n, o), <<"[", "]">>)
    \/ \E e1 \in GapElems : \E e2 \in GapElems :
           \E p \in Texts({" ", NL}, MaxGap) : \E q \in Texts({" ", NL}, MaxGap) :
               StartText(TupleOf(<<Prim("u8"), Prim("u8")>>), GapText(e1, p, q, e2))
    \/ \E kind \in IntKinds : \E txt \in BoundaryTexts(kind) : \E tail \in Tails :
           \E sign \in {<<>>, <<"+">>} : StartText(Prim(kind), sign \o txt \o tail)
    \/ \E content \in Texts({"a", "U+00E9"}, MaxContent) : \E tail \in Tails :
           StartText(Prim("char"), <<QUOTE>> \o content \o <<QUOTE>> \o tail)
    \/ \E n \in {"bool", "unit"} : \E lead \in Texts({" ", "U+00A0"}, MaxGap) :
           \E lit \in Literals : \E trail \in Texts({" ", "U+00A0"}, MaxGap) :
               StartText(Prim(n), lead \o lit \o trail)

SpecErr == InitErr /\ [][NextCall]_vars

\* The 1-indexed row and column of the i-th character of s (of the end of s
\* for i = Len(s) + 1).
RowAt(s, i) == 1 + Newlines(Prefix(s, i - 1))
ColAt(s, i) == 1 + Len(LastPart(Prefix(s, i - 1)))

\* C11: when the text consumed on a fresh Json holds a newline, the cursor
\* after a successful decode is the true position of the end of the text
\* (row = 1 + newlines, col = 1 + characters after the last newline), and an
\* error that reports a letter of a later element, as in "[1\n, x]", carries
\* the row and column of that letter.
C11_PositionAccuracy ==
    Done /\ calls = 1 /\ Newlines(input) > 0 =>
        /\ result.k = "Ok" =>
               /\ row = RowAt(input, Len(input) + 1)
               /\ col = ColAt(input, Len(input) + 1)
        /\ (IsSyntax(result) /\ result.err.unexpected = Some(<<"x">>)) =>
               \E i \in 1..Len(input) :
                   /\ input[i] = "x"
                   /\ result.err.row = RowAt(input, i)
                   /\ result.err.col = ColAt(input, i)

IsTuple(t) == t.k = "tuple"

\* C12: a bracketed list of fewer than N valid elements (at least one) decoded
\* as an N-tuple fails with Syntax{unexpected: "]", expected: ","} reported at
\* the row and column of the ']'.
C12_TooFew ==
    Done /\ IsTuple(ty) =>
        \A m \in 1..(Len(ty.el) - 1) : \A variant \in 1..2 :
            input = ListText(ty.el, m, TRUE, TRUE, <<>>, variant) =>
                /\ IsSyntax(result)
                /\ result.err.unexpected = Some(<<"]">>)
                /\ result.err.expected = Some(<<",">>)
                /\ result.err.row = 1
                /\ result.err.col = Len(input)

\* C13: a bracketed list of N + 1 valid elements decoded as an N-tuple fails
\* with Syntax{unexpected: ","} and no expected token, at the first surplus
\* comma, whatever the type of the last tuple element.
C13_TooMany ==
    Done /\ IsTuple(ty) =>
        \A variant \in 1..2 :
            input = ListText(ty.el, Len(ty.el) + 1, TRUE, TRUE, <<>>, variant) =>
                /\ IsSyntax(result)
                /\ result.err.unexpected = Some(<<",">>)
                /\ result.err.expected = None
                /\ result.err.row = 1
                /\ result.err.col =
                       Len(ListText(ty.el, Len(ty.el), TRUE, FALSE, <<>>, variant)) + 1

\* The list text is not the text of an N-tuple: a bracket is missing, the
\* element count is wrong, or something follows the ']'.
BadStructure(n, m, open, close, trail) ==
    /\ ~(m = n /\ open /\ close /\ trail = <<>>)
    /\ trail # <<>> => close

\* C14: a tuple text whose elements are valid values of their types but whose
\* structure is wrong returns an error of kind Syntax, never Overflow.
C14_StructuralIsSyntax ==
    Done /\ IsTuple(ty) =>
        \A m \in 0..(Len(ty.el) + 1) : \A open \in BOOLEAN : \A close \in BOOLEAN :
            \A trail \in Trails : \A variant \in 1..2 :
                (/\ BadStructure(Len(ty.el), m, open, close, trail)
                 /\ input = ListText(ty.el, m, open, close, trail, variant))
                => IsSyntax(result)

\* One quoted text and nothing else: the first and the last character are
\* the only quotes.
WellFormedQuoted(t) ==
    /\ Len(t) >= 2
    /\ t[1] = QUOTE
    /\ t[Len(t)] = QUOTE
    /\ \A i \in 2..(Len(t) - 1) : t[i] # QUOTE

\* C15: an Overflow error is returned only for input that is well formed for
\* the type: for an integer type a complete decimal number with no invalid
\* character, for char one quoted text followed only by whitespace; input
\* with a grammar violation returns Syntax instead.
C15_OverflowMeansValid ==
    Done /\ IsOverflow(result) =>
        /\ IsInt(ty) => WellFormedInt(ty.n, Trim(input))
        /\ IsPrim(ty, "char") => WellFormedQuoted(Trim(input))

\* C16 as stated: for every arity "[]" returns Syntax{expected: the first
\* element's type name} with no unexpected token, just after the '['.
C16_EmptyBodyAll ==
    Done /\ IsTuple(ty) /\ input = <<"[", "]">> =>
        /\ IsSyntax(result)
        /\ result.err.unexpected = None
        /\ result.err.expected = Some(<<ty.el[1].n>>)
        /\ result.err.row = 1
        /\ result.err.col = 2

\* C16 as amended: for arity 1, "[]" returns exactly the error that the empty
\* text returns for the element type at the position just after the '[' (for
\* an integer element Syntax{expected: its type name}, no unexpected token);
\* for arity 2 and more the scan for ',' fails first, with
\* Syntax{unexpected: "]", expected: ","}.
C16_EmptyBody ==
    Done /\ IsTuple(ty) /\ input = <<"[", "]">> =>
        /\ Len(ty.el) = 1 =>
               /\ result = Outcome(deserialize(NewCursor(1, 2), ty.el[1], <<>>))
               /\ IsInt(ty.el[1]) =>
                      result.err = Syntax(1, 2, None, Some(<<ty.el[1].n>>))
        /\ Len(ty.el) >= 2 =>
               /\ IsSyntax(result)
               /\ result.err.unexpected = Some(<<"]">>)
               /\ result.err.expected = Some(<<",">>)

C16_Witness ==
    /\ Done
    /\ IsTuple(ty)
    /\ ty.el = <<Prim("u8")>>
    /\ input = <<"[", "]">>
    /\ IsSyntax(result)
    /\ result.err = Syntax(1, 2, None, Some(<<"u8">>))

(***************************************************************************)
(* Valid texts with whitespace inserted, decoded on a fresh Json           *)
(***************************************************************************)

\* Bounds of the inserted whitespace and of the padded tuples.
MaxWsLen   == 1
MaxWsArity == 2

WsChars == {" ", "\t", NL}

RECURSIVE PadElements(_, _, _, _, _)
\* The elements of a tuple from the i-th on, with b after '[' and after each
\* ',' and a before each ',' and before ']'.
PadElements(el, v, i, a, b) ==
    IF i > Len(el) THEN <<>>
    ELSE (IF i > 1 THEN <<",">> ELSE <<>>)
         \o b \o serialize(el[i], v[i]) \o a \o PadElements(el, v, i + 1, a, b)

\* The text of v with whitespace a before it and b after it, and for a tuple
\* around every bracket and comma.
PadText(t, v, a, b) ==
    IF t.k = "tuple"
    THEN a \o <<"[">> \o PadElements(t.el, v, 1, a, b) \o <<"]">> \o b
    ELSE a \o serialize(t, v) \o b

\* A fresh Json and the padded text of v about to be decoded as type t.
StartPadded(t, v, a, b) ==
    /\ JsonNew
    /\ ty = t
    /\ value = v
    /\ input = PadText(t, v, a, b)
    /\ pc = "ready"

InitWs ==
    \E a \in Texts(WsChars, MaxWsLen) : \E b \in Texts(WsChars, MaxWsLen) :
        \/ \E i \in 1..Len(Pool) : StartPadded(Pool[i].ty, Pool[i].v, a, b)
        \/ \E n \in 1..MaxWsArity : \E o \in 1..Len(Pool) :
               StartPadded(TupleType(n, o), TupleValue(n, o), a, b)
        \/ StartPadded(TupleType(MaxArity, 1), TupleValue(MaxArity, 1), a, b)

SpecWs == InitWs /\ [][NextCall]_vars

\* C17: ASCII whitespace (space, tab, newline) inserted before and after a
\* valid primitive text, or around the brackets and commas of a valid tuple
\* text, does not change the decoded value: the result is the Ok(v) that the
\* text without the whitespace returns.
C17_WhitespaceTolerance ==
    Done =>
        /\ RoundTripOk
        /\ result = Outcome(deserialize(NewCursor(1, 1), ty, PadText(ty, value, <<>>, <<>>)))

C17_Witness ==
    /\ Done
    /\ IsTuple(ty)
    /\ Len(ty.el) = 2
    /\ \E i \in 1..Len(input) : input[i] = "\t"
    /\ \E i \in 1..Len(input) : input[i] = NL
    /\ RoundTripOk

IsOkValue(res, v) == res.k = "Ok" /\ res.v = v

\* C18: deserialize::<bool>(s) is Ok(true) exactly when the whitespace-trimmed
\* s is "true" and Ok(false) exactly when it is "false"; deserialize::<()>(s)
\* is Ok(()) exactly when it is "null"; every other input returns a Syntax
\* error with expected "bool", or "null".
C18_Literals ==
    Done =>
        /\ IsPrim(ty, "bool") =>
               /\ IsOkValue(result, TRUE) <=> Trim(input) = TRUE_TEXT
               /\ IsOkValue(result, FALSE) <=> Trim(input) = FALSE_TEXT
               /\ Trim(input) \notin {TRUE_TEXT, FALSE_TEXT} =>
                      IsSyntax(result) /\ result.err.expected = Some(<<"bool">>)
        /\ IsPrim(ty, "unit") =>
               /\ result.k = "Ok" <=> Trim(input) = NULL_TEXT
               /\ Trim(input) # NULL_TEXT =>
                      IsSyntax(result) /\ result.err.expected = Some(<<"null">>)

\* C19: when visit_bool or visit_unit rejects an input, the unexpected field
\* of the Syntax error is the input with its leading and trailing whitespace
\* removed.
C19_UnexpectedTrimmed ==
    Done /\ (IsPrim(ty, "bool") \/ IsPrim(ty, "unit")) /\ IsSyntax(result) =>
        result.err.unexpected = Some(Trim(input))

RECURSIVE JoinUpTo(_, _, _)
\* The first n serialized elements with ", " between neighbours.
JoinUpTo(el, v, n) ==
    IF n = 0 THEN <<>>
    ELSE IF n = 1 THEN serialize(el[1], v[1])
    ELSE JoinUpTo(el, v, n - 1) \o <<",", " ">> \o serialize(el[n], v[n])

\* C20: the text serialize returns for an N-tuple is "[", the serialized
\* elements in index order with exactly ", " between neighbours, then "]":
\* no trailing separator and no other whitespace.
C20_TupleEncoding ==
    pc # "value" /\ IsTuple(ty) =>
        input = <<"[">> \o JoinUpTo(ty.el, value, Len(ty.el)) \o <<"]">>

C20_Witness ==
    /\ pc = "ready"
    /\ IsTuple(ty)
    /\ ty.el = <<Prim("u8"), Prim("String")>>
    /\ input = <<"[", "2", "5", "5", ",", " ", QUOTE, QUOTE, "]">>

\* A character as the encoder writes it: a backslash doubled, a quote behind
\* one backslash, any other character itself.
EscapeChar(ch) ==
    IF ch = BSL THEN <<BSL, BSL>>
    ELSE IF ch = QUOTE THEN <<BSL, QUOTE>>
    ELSE <<ch>>

RECURSIVE EscapeEach(_)
EscapeEach(t) == IF t = <<>> THEN <<>> ELSE EscapeChar(Head(t)) \o EscapeEach(Tail(t))

\* C21: the text serialize returns for a char or a String t is a quote, then
\* t with every backslash doubled and every quote of t behind one backslash,
\* then a quote: a quote of t is never escaped twice.
C21_TextEncoding ==
    pc # "value" /\ (IsPrim(ty, "char") \/ IsPrim(ty, "String")) =>
        input = <<QUOTE>>
                  \o EscapeEach(IF IsPrim(ty, "char") THEN <<value>> ELSE value)
                  \o <<QUOTE>>

C21_Witness ==
    /\ pc = "ready"
    /\ IsPrim(ty, "String")
    /\ value = <<QUOTE>>
    /\ input = <<QUOTE, BSL, QUOTE, QUOTE>>

(***************************************************************************)
(* Tuples with elements that fail, decoded on a fresh Json                 *)
(***************************************************************************)

\* Bound of the tuples with failing elements.
MaxFailArity == 3

FailTypes == {"u8", "i8", "bool", "char"}

\* The text of an element: variant 1 is a valid value, 2 and 3 are texts the
\* element type rejects (a Syntax error, and an Overflow where the type has
\* one).
FailText(n, variant) ==
    IF n = "u8"
    THEN (IF variant = 1 THEN <<"1">> ELSE IF variant = 2 THEN <<"x">>
          ELSE <<"2", "5", "6">>)
    ELSE IF n = "i8"
    THEN (IF variant = 1 THEN <<"-", "1">> ELSE IF variant = 2 THEN <<"1", "-">>
          ELSE <<"-", "1", "2", "9">>)
    ELSE IF n = "bool"
    THEN (IF variant = 1 THEN TRUE_TEXT ELSE IF variant = 2 THEN <<"x">>
          ELSE <<"t", "r", "u">>)
    ELSE (IF variant = 1 THEN <<QUOTE, "a", QUOTE>>
          ELSE IF variant = 2 THEN <<QUOTE, QUOTE>>
          ELSE <<QUOTE, "a", "b", QUOTE>>)

\* The text between the brackets that belongs to element i: the space after
\* the comma, then the element's text.
FailSlice(el, vs, i) ==
    (IF i > 1 THEN <<" ">> ELSE <<>>) \o FailText(el[i].n, vs[i])

RECURSIVE FailJoin(_, _, _)
FailJoin(el, vs, i) ==
    IF i > Len(el) THEN <<>>
    ELSE (IF i > 1 THEN <<",">> ELSE <<>>) \o FailSlice(el, vs, i) \o FailJoin(el, vs, i + 1)

FailList(el, vs) == <<"[">> \o FailJoin(el, vs, 1) \o <<"]">>

InitFail ==
    \E n \in 1..MaxFailArity : \E el \in [1..n -> {Prim(e) : e \in FailTypes}] :
        \E vs \in [1..n -> 1..3] : StartText(TupleOf(el), FailList(el, vs))

SpecFail == InitFail /\ [][NextCall]_vars

RECURSIVE FirstFailure(_, _, _, _)
\* The elements decoded one after the other, each from the cursor the one
\* before it and its delimiter left: the first result that is not Ok, or the
\* result of the last element.
FirstFailure(cur, el, vs, i) ==
    Try(deserialize(cur, el[i], FailSlice(el, vs, i)), LAMBDA r :
        IF i = Len(el) THEN r
        ELSE FirstFailure(SetCol(r.c, r.c.col + 1), el, vs, i + 1))

\* C22: when the decode of an element of a tuple returns an error, the tuple
\* decode returns exactly that error, the first in index order, whatever
\* the later elements hold, and the cursor stays where the error was
\* detected.
C22_FailFast ==
    Done /\ IsTuple(ty) =>
        \A vs \in [1..Len(ty.el) -> 1..3] :
            (input = FailList(ty.el, vs) /\ \E i \in 1..Len(ty.el) : vs[i] # 1) =>
                /\ result.k = "Err"
                /\ result = Outcome(FirstFailure(NewCursor(1, 2), ty.el, vs, 1))
                /\ row = result.err.row
                /\ col <= result.err.col

C22_Witness ==
    /\ Done
    /\ IsTuple(ty)
    /\ ty.el = <<Prim("u8"), Prim("char"), Prim("bool")>>
    /\ input = FailList(ty.el, <<1, 3, 2>>)
    /\ IsOverflowAt(result, "char", 1, 5)

\* Syntax{unexpected: ch} with no expected token, at (r, c).
IsUnexpectedAt(res, ch, r, c) ==
    /\ IsSyntax(res)
    /\ res.err.unexpected = Some(<<ch>>)
    /\ res.err.expected = None
    /\ res.err.row = r
    /\ res.err.col = c

\* C23: a complete quoted char, or a complete tuple, on one line, followed by
\* optional whitespace and then a letter fails with Syntax{unexpected: the
\* letter} and no expected token, at the row and column of the letter.
C23_TrailingContent ==
    Done =>
        /\ IsPrim(ty, "char") =>
               \A ch \in {"a", "U+00E9"} : \A tail \in {<<"x">>, <<" ", "x">>} :
                   input = <<QUOTE, ch, QUOTE>> \o tail =>
                       IsUnexpectedAt(result, "x", 1, Len(input))
        /\ IsTuple(ty) =>
               \A variant \in 1..2 :
                   input = ListText(ty.el, Len(ty.el), TRUE, TRUE, <<"x">>, variant) =>
                       IsUnexpectedAt(result, "x", 1, Len(input))

\* The whitespace in front of the text.
LeadOf(t) == Prefix(t, Len(t) - Len(TrimStart(t)))

\* The characters of a number's text that are neither a digit nor, for a
\* signed type, a '-' in first position.
Offending(kind, t) ==
    {i \in 1..Len(t) :
        /\ t[i] \notin Digits
        /\ ~(i = 1 /\ t[i] = "-" /\ kind \in SignedKinds)}

FirstOffending(kind, t) ==
    CHOOSE i \in Offending(kind, t) : \A j \in Offending(kind, t) : i <= j

\* Syntax{unexpected: the i-th character of the trimmed input}, at the column
\* of the number's start plus i - 1.
IsOffendingAt(res, t, i) ==
    /\ IsSyntax(res)
    /\ res.err.unexpected = Some(<<Trim(t)[i]>>)
    /\ res.err.row = StartRow(LeadOf(t))
    /\ res.err.col = StartCol(LeadOf(t)) + i - 1

\* C24: an integer text whose trimmed form holds a character that is neither
\* a digit nor (signed types) a '-' in first position returns
\* Syntax{unexpected: the first such character} at that character's column;
\* a leading '-' is such a character for an unsigned type, a second '-' for
\* a signed one.
C24_InvalidCharacter ==
    Done /\ IsInt(ty) /\ Offending(ty.n, Trim(input)) # {} =>
        IsOffendingAt(result, input, FirstOffending(ty.n, Trim(input)))

WHITESPACE_TEXT == <<"w", "h", "i", "t", "e", "s", "p", "a", "c", "e">>

\* Syntax{unexpected: "whitespace"} for the i-th character of the trimmed
\* input; for a newline the position is the start of the next row.
IsWhitespaceError(res, t, i) ==
    /\ IsSyntax(res)
    /\ res.err.unexpected = Some(WHITESPACE_TEXT)
    /\ Trim(t)[i] = NL =>
           /\ res.err.row = StartRow(LeadOf(t)) + 1
           /\ res.err.col = 1

\* C25: when the first character of a number's text that is not part of the
\* number is a whitespace character, as in "1 2" or "1\n2", the error is
\* Syntax{unexpected: "whitespace"}, and for a newline its position reflects
\* the row and column update of that newline.
C25_WhitespaceInNumber ==
    (/\ Done
     /\ IsInt(ty)
     /\ Offending(ty.n, Trim(input)) # {}
     /\ IsWhitespace(Trim(input)[FirstOffending(ty.n, Trim(input))]))
    => IsWhitespaceError(result, input, FirstOffending(ty.n, Trim(input)))

(***************************************************************************)
(* The private helpers of Json called on their own, from a cursor in the    *)
(* middle of a parse.  ty names the call: the helper, its second argument  *)
(* as a text (the delimiter, the expected literal, nothing) and the cursor  *)
(* at the call; input is its first argument.                                *)
(***************************************************************************)

\* Bound of the texts given to the helpers.
MaxHelperLen == 4

HelperCall(n, arg, r, c) == [k |-> "helper", n |-> n, arg |-> arg, at |-> <<r, c>>]

\* The cursors the helpers are called from.
HelperCursors == {<<1, 1>>, <<2, 3>>}

\* The delimiters of take_until's call sites and the literals of
\* take_expected's and consume_expected's.
UntilChars     == {",", "]", QUOTE}
ExpectedTexts  == {<<"[">>, <<",">>, <<"]">>, <<QUOTE>>}

UntilAlphabet(until) == {QUOTE, BSL, "a", "U+00E9", NL} \cup {until}
WhitespaceAlphabet   == {" ", NL, "\t", "U+00A0", "a", "U+00E9"}
ExpectedAlphabet     == {"[", ",", QUOTE, "a", "U+00E9"}

\* A Json whose cursor is at (r, c) and a helper about to be called on txt.
StartHelper(n, arg, txt, r, c) ==
    /\ row = r
    /\ col = c
    /\ pending = <<>>
    /\ ret = NoResult
    /\ result = NoResult
    /\ calls = 0
    /\ ty = HelperCall(n, arg, r, c)
    /\ value = None
    /\ input = txt
    /\ pc = "ready"

InitHelper ==
    \E at \in HelperCursors :
        \/ \E until \in UntilChars : \E txt \in Texts(UntilAlphabet(until), MaxHelperLen) :
               StartHelper("take_until", <<until>>, txt, at[1], at[2])
        \/ \E txt \in Texts(WhitespaceAlphabet, MaxHelperLen) :
               StartHelper("consume_whitespace", <<>>, txt, at[1], at[2])
        \/ \E n \in {"take_expected", "consume_expected"} : \E expected \in ExpectedTexts :
               \E txt \in Texts(ExpectedAlphabet, MaxHelperLen) :
                   StartHelper(n, expected, txt, at[1], at[2])

\* What the caller of a helper sees: Ok((a, b)), Err(error), or a panic.
Halves(r) ==
    IF r.k = "Ok" THEN [k |-> "Ok", v |-> <<r.a, r.b>>] ELSE Outcome(r)

\* The helper n is called, from the current cursor, and returns r.
HelperStarted(n, r) ==
    /\ pc = "ready"
    /\ ty.k = "helper"
    /\ ty.n = n
    /\ pending' = r.c.tr
    /\ ret' = Halves(r)
    /\ calls' = calls + 1
    /\ pc' = "running"
    /\ UNCHANGED <<ty, value, input, row, col, result>>

\* self.take_until(input, until)
CallTakeUntil ==
    HelperStarted("take_until", take_until(NewCursor(row, col), input, ty.arg[1]))

\* self.consume_whitespace(input)
CallConsumeWhitespace ==
    HelperStarted("consume_whitespace", consume_whitespace(NewCursor(row, col), input))

\* self.take_expected(input, expected)
CallTakeExpected ==
    HelperStarted("take_expected", take_expected(NewCursor(row, col), input, ty.arg))

\* self.consume_expected(input, expected)
CallConsumeExpected ==
    HelperStarted("consume_expected", consume_expected(NewCursor(row, col), input, ty.arg))

NextHelper ==
    \/ CallTakeUntil
    \/ CallConsumeWhitespace
    \/ CallTakeExpected
    \/ CallConsumeExpected
    \/ Advance
    \/ Return

SpecHelper == InitHelper /\ [][NextHelper]_vars

IsHelper(t, n) == t.k = "helper" /\ t.n = n

RECURSIVE BackslashRun(_, _)
\* The number of consecutive backslashes that end just before character i.
BackslashRun(t, i) ==
    IF i > 1 /\ t[i - 1] = BSL THEN 1 + BackslashRun(t, i - 1) ELSE 0

\* Character i is immediately preceded by an unescaped backslash.
Escaped(t, i) == BackslashRun(t, i) % 2 = 1

\* Character i is inside a quoted string: an odd number of unescaped quotes
\* comes before it.
InQuote(t, i) ==
    Cardinality({j \in 1..(i - 1) : t[j] = QUOTE /\ ~Escaped(t, j)}) % 2 = 1

\* The occurrences of d that are neither inside quotes nor escaped.
SplitPoints(t, d) ==
    {i \in 1..Len(t) : t[i] = d /\ ~InQuote(t, i) /\ ~Escaped(t, i)}

FirstSplit(t, d) == CHOOSE i \in SplitPoints(t, d) : \A j \in SplitPoints(t, d) : i <= j

IsSplitAt(res, t, i) == res.k = "Ok" /\ res.v = <<Prefix(t, i - 1), Suffix(t, i - 1)>>

\* C26: take_until(input, d), d one of ',' ']' '"', splits the input at the
\* first occurrence of d that is neither inside a quoted string nor
\* immediately preceded by an unescaped backslash; when every occurrence of
\* d is quoted or escaped the scan runs to the end and the call is an error.
C26_TakeUntil ==
    Done /\ IsHelper(ty, "take_until") =>
        IF SplitPoints(input, ty.arg[1]) # {}
        THEN IsSplitAt(result, input, FirstSplit(input, ty.arg[1]))
        ELSE result.k = "Err"

FirstOrNone(t) == IF t = <<>> THEN None ELSE Some(<<Head(t)>>)

\* C27: when the input does not start with the literal, take_expected and
\* consume_expected return Syntax{unexpected: the first character of the
\* input or none, expected: the literal} at the cursor of the call and leave
\* row and col as they were; when it does, they return the literal and the
\* rest of the input, and consume_expected has moved col by the literal's
\* length (take_expected has not moved it).
C27_ExpectLiteral ==
    Done /\ (IsHelper(ty, "take_expected") \/ IsHelper(ty, "consume_expected")) =>
        IF StartsWith(input, ty.arg)
        THEN /\ result = [k |-> "Ok", v |-> <<ty.arg, Suffix(input, Len(ty.arg))>>]
             /\ row = ty.at[1]
             /\ col = ty.at[2] + (IF ty.n = "consume_expected" THEN Len(ty.arg) ELSE 0)
        ELSE /\ result = [k |-> "Err",
                          err |-> Syntax(ty.at[1], ty.at[2], FirstOrNone(input), Some(ty.arg))]
             /\ row = ty.at[1]
             /\ col = ty.at[2]

C27_Witness ==
    /\ Done
    /\ IsHelper(ty, "consume_expected")
    /\ ty.arg = <<"[">>
    /\ ty.at = <<2, 3>>
    /\ input = <<"[", "a">>
    /\ result = [k |-> "Ok", v |-> <<<<"[">>, <<"a">>>>]
    /\ row = 2
    /\ col = 4

\* C28: a deserialize call made on a Json that has been called before
\* returns what the same call returns on a fresh Json, whose cursor is at
\* row 1, col 1: the same value or the same error with the same row and col.
C28_FreshCursor ==
    Done /\ calls = MaxCalls =>
        result = Outcome(deserialize(NewCursor(1, 1), ty, input))

\* The character the helper stopped at: the first character that is not
\* whitespace, or the first character of the rest the delimiter was found in.
BeginsWith(t, ch) == t # <<>> /\ Head(t) = ch

SplitsAtFound(res, t, n, arg) ==
    /\ res.v[1] \o res.v[2] = t
    /\ n = "take_until" => BeginsWith(res.v[2], arg[1])
    /\ (n = "consume_whitespace" /\ TrimStart(t) # <<>>) =>
           BeginsWith(res.v[2], Head(TrimStart(t)))

\* C29: consume_whitespace and take_until never panic, on any input,
\* whatever the UTF-8 length of its characters, and the pair (prefix, rest)
\* they return satisfies prefix ++ rest = input, with rest beginning with the
\* character found.
C29_ExactSplit ==
    Done /\ (IsHelper(ty, "consume_whitespace") \/ IsHelper(ty, "take_until")) =>
        /\ result.k # "Panic"
        /\ result.k = "Ok" => SplitsAtFound(result, input, ty.n, ty.arg)

SingleLineAscii(t) == \A i \in 1..Len(t) : Utf8Len(t[i]) = 1 /\ t[i] # NL

\* C30: after a successful deserialize of a single-line ASCII text on a fresh
\* Json the cursor is at row 1 and col 1 + the length of the text, for every
\* type: each character was consumed exactly once, the quoted text of a char
\* or a String too, although it is scanned twice.
C30_ConsumedOnce ==
    Done /\ calls = 1 /\ result.k = "Ok" /\ SingleLineAscii(input) =>
        /\ row = 1
        /\ col = 1 + Len(input)

C30_Witness ==
    /\ Done
    /\ calls = 1
    /\ ty = TupleOf(<<Prim("String"), Prim("char")>>)
    /\ value = <<<<BSL, QUOTE, ",">>, "]">>
    /\ input = PadText(ty, value, <<" ">>, <<" ">>)
    /\ Len(input) = 19
    /\ RoundTripOk
    /\ row = 1
    /\ col = 20

=============================================================================
